---- MODULE Spec2Model ----
(***************************************************************************)
(* Model of the fral crate: a persistent skew-binary random-access list   *)
(* (src/src/arc.rs; src/src/rc.rs is the same code over Rc).               *)
(*                                                                         *)
(* An Arc<X> is a shared, read-only pointer: no operation of the crate    *)
(* writes through one, and the derived Eq/Hash compare the pointees.  The *)
(* operations are modelled twice: on values, an Arc<X> being the value X  *)
(* it points to (Spec, SpecIter, SpecFromIter), and on an explicit heap   *)
(* of Arc cells, where sharing is visible (SpecArc).  ArcRefinesValue     *)
(* relates the two.                                                        *)
(***************************************************************************)
EXTENDS Integers, Naturals, Sequences, FiniteSets, TLC

\* ---------------------------------------------------------------- bounds
\* Width, in bits, of the modelled usize.
WordBits == 5
\* The caller never conses onto a list that already holds MaxLen elements.
MaxLen == 7
\* Number of distinct element values the caller stores.
NumValues == 2
\* The caller calls next() at most MaxExtraNext times on an exhausted iterator.
MaxExtraNext == 2
\* The caller keeps at most MaxVersions versions of a list on the Arc heap.
MaxVersions == 5
\* The caller of one repeated element never conses onto a list that already
\* holds MaxLongLen elements.
MaxLongLen == 22
\* The caller of two lists never conses onto a list that already holds
\* MaxPairLen elements.
MaxPairLen == 4

Values == 1 .. NumValues
WordModulus == 2 ^ WordBits
\* usize::MAX
MaxWord == WordModulus - 1

\* ------------------------------------------------------ Option<_> results
None == [tag |-> "None"]
Some(v) == [tag |-> "Some", val |-> v]
\* An arithmetic fault: a usize subtraction below zero (panics when overflow
\* checks are compiled in).
Panic == [tag |-> "Panic"]

\* ---------------------------------------------------------- usize arithmetic
\* a + b on usize, wrapping at the word width.
WrappingAdd(a, b) == (a + b) % WordModulus
\* usize::wrapping_sub
WrappingSub(a, b) == (a - b + WordModulus) % WordModulus
\* a - b on usize.  -1 marks the underflow.
Underflow == 0 - 1
CheckedSub(a, b) == IF a = Underflow \/ a < b THEN Underflow ELSE a - b

\* ------------------------------------------------------------------ Tree<T>
Leaf(x) == [tag |-> "Leaf", x |-> x]
Node(x, t1, t2) == [tag |-> "Node", x |-> x, t1 |-> t1, t2 |-> t2]

\* ------------------------------------------------------------------ Pair<T>
Nil == [tag |-> "Nil"]
Cons(size, tree, cdr) == [tag |-> "Cons", size |-> size, tree |-> tree, cdr |-> cdr]

\* Tree::lookup sending the index half to the right subtree.
RECURSIVE TreeLookupStrictHalf(_, _, _)
TreeLookupStrictHalf(t, size, index) ==
    IF index = 0 THEN Some(t.x)
    ELSE IF t.tag = "Leaf" THEN None
    ELSE LET half == size \div 2 IN
         IF index < half
         THEN TreeLookupStrictHalf(t.t1, half, index - 1)
         ELSE LET j == CheckedSub(CheckedSub(index, 1), half) IN
              IF j = Underflow THEN Panic ELSE TreeLookupStrictHalf(t.t2, half, j)

\* Tree::lookup
RECURSIVE TreeLookup(_, _, _)
TreeLookup(t, size, index) ==
    IF index = 0 THEN Some(t.x)
    ELSE IF t.tag = "Leaf" THEN None
    ELSE LET half == size \div 2 IN
         IF index <= half
         THEN LET j == CheckedSub(index, 1) IN
              IF j = Underflow THEN Panic ELSE TreeLookup(t.t1, half, j)
         ELSE LET j == CheckedSub(CheckedSub(index, 1), half) IN
              IF j = Underflow THEN Panic ELSE TreeLookup(t.t2, half, j)

\* Pair::get faulting at the end of the spine instead of returning None.
RECURSIVE PairGetFaulting(_, _)
PairGetFaulting(p, index) ==
    IF p.tag = "Nil" THEN Panic
    ELSE IF index < p.size THEN TreeLookup(p.tree, p.size, index)
    ELSE PairGetFaulting(p.cdr, index - p.size)

\* Pair::get
RECURSIVE PairGet(_, _)
PairGet(p, index) ==
    IF p.tag = "Nil" THEN None
    ELSE IF index < p.size THEN TreeLookup(p.tree, p.size, index)
    ELSE LET j == CheckedSub(index, p.size) IN
         IF j = Underflow THEN Panic ELSE PairGet(p.cdr, j)

\* Pair::cons with the two merged trees in the wrong order.
PairConsSwapped(p, x) ==
    IF p.tag = "Nil" THEN Cons(1, Leaf(x), Nil)
    ELSE IF p.cdr.tag = "Cons" /\ p.size = p.cdr.size
         THEN Cons(1 + p.size + p.cdr.size, Node(x, p.cdr.tree, p.tree), p.cdr.cdr)
         ELSE Cons(1, Leaf(x), p)

\* Pair::cons caching the merged segment's size without its root.
PairConsNoRoot(p, x) ==
    IF p.tag = "Nil" THEN Cons(1, Leaf(x), Nil)
    ELSE IF p.cdr.tag = "Cons" /\ p.size = p.cdr.size
         THEN Cons(p.size + p.cdr.size, Node(x, p.tree, p.cdr.tree), p.cdr.cdr)
         ELSE Cons(1, Leaf(x), p)

\* Pair::cons merging the first two segments whatever their sizes.
PairConsAlwaysMerge(p, x) ==
    IF p.tag = "Nil" THEN Cons(1, Leaf(x), Nil)
    ELSE IF p.cdr.tag = "Cons"
         THEN Cons(1 + p.size + p.cdr.size, Node(x, p.tree, p.cdr.tree), p.cdr.cdr)
         ELSE Cons(1, Leaf(x), p)

\* Pair::cons that never merges.
PairConsAlwaysPush(p, x) == Cons(1, Leaf(x), p)

\* Pair::cons
PairCons(p, x) ==
    IF p.tag = "Nil" THEN Cons(1, Leaf(x), Nil)
    ELSE LET size1 == p.size
             t1 == p.tree
             nxt == p.cdr
         IN IF nxt.tag = "Cons"
            THEN LET size2 == nxt.size
                     t2 == nxt.tree
                     rest == nxt.cdr
                 IN IF size1 = size2
                    THEN Cons(WrappingAdd(WrappingAdd(1, size1), size2),
                              Node(x, t1, t2), rest)
                    ELSE Cons(1, Leaf(x), Cons(size1, t1, Cons(size2, t2, rest)))
            ELSE Cons(1, Leaf(x), Cons(size1, t1, Nil))

\* Pair::uncons putting the right subtree in front of the left one.
PairUnconsSwapped(p) ==
    IF p.tag = "Nil" THEN None
    ELSE IF p.tree.tag = "Leaf" THEN Some(<<p.tree.x, p.cdr>>)
    ELSE Some(<<p.tree.x, Cons(p.size \div 2, p.tree.t2,
                               Cons(p.size \div 2, p.tree.t1, p.cdr))>>)

\* Pair::uncons rounding the half size up.
PairUnconsRoundUp(p) ==
    IF p.tag = "Nil" THEN None
    ELSE IF p.tree.tag = "Leaf" THEN Some(<<p.tree.x, p.cdr>>)
    ELSE Some(<<p.tree.x, Cons((p.size + 1) \div 2, p.tree.t1,
                               Cons((p.size + 1) \div 2, p.tree.t2, p.cdr))>>)

\* Pair::uncons: None, or Some of the pair <<head, rest of the spine>>.
PairUncons(p) ==
    IF p.tag = "Nil" THEN None
    ELSE LET size == p.size
             t == p.tree
             rest == p.cdr
         IN IF t.tag = "Leaf" THEN Some(<<t.x, rest>>)
            ELSE LET half == size \div 2 IN
                 Some(<<t.x, Cons(half, t.t1, Cons(half, t.t2, rest))>>)

\* ------------------------------------------------------------------ Fral<T>
Fral(size, pair) == [size |-> size, pair |-> pair]

\* Fral::default
FralDefault == Fral(0, Nil)
\* Fral::new
FralNew == FralDefault
\* Fral::get
FralGet(self, index) == PairGet(self.pair, index)
\* Fral::cons handing the receiver's length to the new list.
FralConsSameSize(self, x) == Fral(self.size, PairCons(self.pair, x))

\* Fral::cons
FralCons(self, x) == Fral(WrappingAdd(1, self.size), PairCons(self.pair, x))
\* Fral::uncons handing the receiver's length to the tail.
FralUnconsSameSize(self) ==
    LET r == PairUncons(self.pair)
    IN IF r.tag = "None" THEN None
       ELSE Some(<<r.val[1], Fral(self.size, r.val[2])>>)

\* Fral::uncons
FralUncons(self) ==
    LET size == WrappingSub(self.size, 1)
        r == PairUncons(self.pair)
    IN IF r.tag = "None" THEN None
       ELSE Some(<<r.val[1], Fral(size, r.val[2])>>)
\* Fral::is_empty
FralIsEmpty(self) == self.size = 0
\* Fral::len
FralLen(self) == self.size
\* Fral::clone
FralClone(self) == Fral(self.size, self.pair)

\* ------------------------------------------- #[derive(PartialEq)], a == b
\* An Arc<X> is compared through its referent; the elements are compared by
\* their own ==.

\* Tree::eq as derived
RECURSIVE TreeEq(_, _)
TreeEq(a, b) ==
    IF a.tag = "Leaf" /\ b.tag = "Leaf" THEN a.x = b.x
    ELSE IF a.tag = "Node" /\ b.tag = "Node"
    THEN a.x = b.x /\ TreeEq(a.t1, b.t1) /\ TreeEq(a.t2, b.t2)
    ELSE FALSE

\* Pair::eq that compares the sizes of the segments and not their trees.
RECURSIVE PairEqIgnoresTrees(_, _)
PairEqIgnoresTrees(a, b) ==
    IF a.tag = "Nil" /\ b.tag = "Nil" THEN TRUE
    ELSE IF a.tag = "Cons" /\ b.tag = "Cons"
    THEN a.size = b.size /\ PairEqIgnoresTrees(a.cdr, b.cdr)
    ELSE FALSE

\* Pair::eq as derived
RECURSIVE PairEq(_, _)
PairEq(a, b) ==
    IF a.tag = "Nil" /\ b.tag = "Nil" THEN TRUE
    ELSE IF a.tag = "Cons" /\ b.tag = "Cons"
    THEN (a.size = b.size /\ TreeEq(a.tree, b.tree)) /\ PairEq(a.cdr, b.cdr)
    ELSE FALSE

\* Fral::eq as derived
FralEq(a, b) == a.size = b.size /\ PairEq(a.pair, b.pair)

\* The from_iter loop consing the input back to front.
RECURSIVE FromIterLoopBackwards(_, _)
FromIterLoopBackwards(acc, s) ==
    IF s = <<>> THEN acc
    ELSE FromIterLoopBackwards(FralCons(acc, s[Len(s)]), SubSeq(s, 1, Len(s) - 1))

\* impl FromIterator for Fral: the loop `for x in iter { f = f.cons(x) }`
\* run on what is left of the input.
RECURSIVE FromIterLoop(_, _)
FromIterLoop(acc, s) ==
    IF s = <<>> THEN acc ELSE FromIterLoop(FralCons(acc, Head(s)), Tail(s))
\* FromIterator::from_iter
FromIter(s) == FromIterLoop(FralNew, s)

\* --------------------------------------------------------------------- Iter<T>
Iter(fral) == [fral |-> fral]
\* Fral::iter
FralIter(self) == Iter(FralClone(self))
\* IntoIterator::into_iter
FralIntoIter(self) == Iter(self)
\* Iter::next that does not store the tail.
IterNextStuck(self) ==
    LET r == FralUncons(self.fral) IN
    IF r.tag = "Some"
    THEN [self |-> self, ret |-> Some(r.val[1])]
    ELSE [self |-> self, ret |-> None]

\* Iter::next: the iterator after the call and the item returned.
IterNext(self) ==
    LET r == FralUncons(self.fral) IN
    IF r.tag = "Some"
    THEN [self |-> Iter(r.val[2]), ret |-> Some(r.val[1])]
    ELSE [self |-> self, ret |-> None]

\* Iter::size_hint
IterSizeHint(self) ==
    LET len == FralLen(self.fral) IN <<len, Some(len)>>
\* ExactSizeIterator::len, which impl ExactSizeIterator for Iter {} inherits:
\* the lower bound of size_hint, asserted equal to the upper bound.
IterLen(self) ==
    LET hint == IterSizeHint(self) IN
    IF hint[2] = Some(hint[1]) THEN hint[1] ELSE Panic
\* Iter::count
IterCount(self) == IterLen(self)
\* Iter::last.  `len - 1` is a plain usize subtraction: below zero it panics
\* when the build has overflow checks (checks = TRUE, the default of a debug
\* build) and wraps when it has none (the default of a release build).
IterLast(self, checks) ==
    LET len == FralLen(self.fral) IN
    IF CheckedSub(len, 1) = Underflow /\ checks THEN Panic
    ELSE FralGet(self.fral, WrappingSub(len, 1))

\* ------------------------------------------------------------- rc::Fral<T>
\* The Rc-based list of src/src/rc.rs, translated from its own source.  An
\* Rc<X>, like an Arc<X>, is the value X it points to.

\* rc::Tree::lookup
RECURSIVE RcTreeLookup(_, _, _)
RcTreeLookup(t, size, index) ==
    IF index = 0 THEN Some(t.x)
    ELSE IF t.tag = "Leaf" THEN None
    ELSE LET half == size \div 2 IN
         IF index <= half
         THEN LET j == CheckedSub(index, 1) IN
              IF j = Underflow THEN Panic ELSE RcTreeLookup(t.t1, half, j)
         ELSE LET j == CheckedSub(CheckedSub(index, 1), half) IN
              IF j = Underflow THEN Panic ELSE RcTreeLookup(t.t2, half, j)

\* rc::Pair::get
RECURSIVE RcPairGet(_, _)
RcPairGet(p, index) ==
    IF p.tag = "Nil" THEN None
    ELSE IF index < p.size THEN RcTreeLookup(p.tree, p.size, index)
    ELSE LET j == CheckedSub(index, p.size) IN
         IF j = Underflow THEN Panic ELSE RcPairGet(p.cdr, j)

\* rc::Pair::cons that never merges the two leading trees.
RcPairConsNeverMerges(p, x) ==
    IF p.tag = "Nil" THEN Cons(1, Leaf(x), Nil)
    ELSE Cons(1, Leaf(x), p)

\* rc::Pair::cons
RcPairCons(p, x) ==
    IF p.tag = "Nil" THEN Cons(1, Leaf(x), Nil)
    ELSE LET size1 == p.size
             t1 == p.tree
             nxt == p.cdr
         IN IF nxt.tag = "Cons"
            THEN LET size2 == nxt.size
                     t2 == nxt.tree
                     rest == nxt.cdr
                 IN IF size1 = size2
                    THEN Cons(WrappingAdd(WrappingAdd(1, size1), size2),
                              Node(x, t1, t2), rest)
                    ELSE Cons(1, Leaf(x), Cons(size1, t1, Cons(size2, t2, rest)))
            ELSE Cons(1, Leaf(x), Cons(size1, t1, Nil))

\* rc::Pair::uncons
RcPairUncons(p) ==
    IF p.tag = "Nil" THEN None
    ELSE LET size == p.size
             t == p.tree
             rest == p.cdr
         IN IF t.tag = "Leaf" THEN Some(<<t.x, rest>>)
            ELSE LET half == size \div 2 IN
                 Some(<<t.x, Cons(half, t.t1, Cons(half, t.t2, rest))>>)

\* rc::Fral::default
RcFralDefault == Fral(0, Nil)
\* rc::Fral::new
RcFralNew == RcFralDefault
\* rc::Fral::get
RcFralGet(self, index) == RcPairGet(self.pair, index)
\* rc::Fral::cons
RcFralCons(self, x) == Fral(WrappingAdd(1, self.size), RcPairCons(self.pair, x))
\* rc::Fral::uncons
RcFralUncons(self) ==
    LET size == WrappingSub(self.size, 1)
        r == RcPairUncons(self.pair)
    IN IF r.tag = "None" THEN None
       ELSE Some(<<r.val[1], Fral(size, r.val[2])>>)
\* rc::Fral::is_empty
RcFralIsEmpty(self) == self.size = 0
\* rc::Fral::len
RcFralLen(self) == self.size
\* rc::Fral::clone
RcFralClone(self) == Fral(self.size, self.pair)
\* rc::Fral::iter
RcFralIter(self) == Iter(RcFralClone(self))
\* rc::Iter::next
RcIterNext(self) ==
    LET r == RcFralUncons(self.fral) IN
    IF r.tag = "Some"
    THEN [self |-> Iter(r.val[2]), ret |-> Some(r.val[1])]
    ELSE [self |-> self, ret |-> None]

\* ------------------------------------------------------------ the Arc heap
\* The same operations with the sharing spelled out.  The heap is the
\* sequence of the cells allocated by Arc::new, an Arc is the index of its
\* cell, cloning an Arc copies the index, and the cells of a Pair or a Tree
\* hold the indices of their parts.  A handle is a Fral whose pair is an
\* index.

\* Arc::new: the heap with the cell added, and the Arc to it.
ArcNew(h, cell) == [heap |-> Append(h, cell), ptr |-> Len(h) + 1]

\* Tree::lookup, on the tree at t.
RECURSIVE ArcTreeLookup(_, _, _, _)
ArcTreeLookup(h, t, size, index) ==
    IF index = 0 THEN Some(h[t].x)
    ELSE IF h[t].tag = "Leaf" THEN None
    ELSE LET half == size \div 2 IN
         IF index <= half
         THEN ArcTreeLookup(h, h[t].t1, half, index - 1)
         ELSE ArcTreeLookup(h, h[t].t2, half, index - 1 - half)

\* Pair::get, on the spine at p.
RECURSIVE ArcPairGet(_, _, _)
ArcPairGet(h, p, index) ==
    IF h[p].tag = "Nil" THEN None
    ELSE IF index < h[p].size THEN ArcTreeLookup(h, h[p].tree, h[p].size, index)
    ELSE ArcPairGet(h, h[p].cdr, index - h[p].size)

\* Pair::cons writing its result over the receiver's cell.
ArcPairConsInPlace(h, p, x) ==
    IF h[p].tag = "Cons" /\ h[h[p].cdr].tag = "Cons" /\ h[p].size = h[h[p].cdr].size
    THEN LET n == ArcNew(h, Node(x, h[p].tree, h[h[p].cdr].tree))
             val == Cons(1 + h[p].size + h[h[p].cdr].size, n.ptr, h[h[p].cdr].cdr)
         IN [heap |-> [n.heap EXCEPT ![p] = val], val |-> val]
    ELSE LET l == ArcNew(h, Leaf(x))
             c == ArcNew(l.heap, h[p])
             val == Cons(1, l.ptr, c.ptr)
         IN [heap |-> [c.heap EXCEPT ![p] = val], val |-> val]

\* Pair::cons, on the spine at p: the heap after its allocations, in the
\* order the code makes them, and the Pair it returns.
ArcPairCons(h, p, x) ==
    IF h[p].tag = "Nil"
    THEN LET l == ArcNew(h, Leaf(x))
             n == ArcNew(l.heap, Nil)
         IN [heap |-> n.heap, val |-> Cons(1, l.ptr, n.ptr)]
    ELSE LET size1 == h[p].size
             t1 == h[p].tree
             nxt == h[p].cdr
         IN IF h[nxt].tag = "Cons"
            THEN LET size2 == h[nxt].size
                     t2 == h[nxt].tree
                     rest == h[nxt].cdr
                 IN IF size1 = size2
                    THEN LET n == ArcNew(h, Node(x, t1, t2))
                         IN [heap |-> n.heap,
                             val |-> Cons(WrappingAdd(WrappingAdd(1, size1), size2),
                                          n.ptr, rest)]
                    ELSE LET l == ArcNew(h, Leaf(x))
                             c2 == ArcNew(l.heap, Cons(size2, t2, rest))
                             c1 == ArcNew(c2.heap, Cons(size1, t1, c2.ptr))
                         IN [heap |-> c1.heap, val |-> Cons(1, l.ptr, c1.ptr)]
            ELSE LET l == ArcNew(h, Leaf(x))
                     n == ArcNew(l.heap, Nil)
                     c1 == ArcNew(n.heap, Cons(size1, t1, n.ptr))
                 IN [heap |-> c1.heap, val |-> Cons(1, l.ptr, c1.ptr)]

\* Pair::uncons, on the spine at p: the heap after its allocations and the
\* Option it returns, the rest of the spine being an Arc.
ArcPairUncons(h, p) ==
    IF h[p].tag = "Nil" THEN [heap |-> h, ret |-> None]
    ELSE LET size == h[p].size
             t == h[p].tree
             rest == h[p].cdr
         IN IF h[t].tag = "Leaf" THEN [heap |-> h, ret |-> Some(<<h[t].x, rest>>)]
            ELSE LET half == size \div 2
                     c2 == ArcNew(h, Cons(half, h[t].t2, rest))
                     c1 == ArcNew(c2.heap, Cons(half, h[t].t1, c2.ptr))
                 IN [heap |-> c1.heap, ret |-> Some(<<h[t].x, c1.ptr>>)]

\* Fral::new
ArcFralNew(h) ==
    LET n == ArcNew(h, Nil) IN [heap |-> n.heap, ret |-> Fral(0, n.ptr)]
\* Fral::get
ArcFralGet(h, self, index) == ArcPairGet(h, self.pair, index)
\* Fral::cons
ArcFralCons(h, self, x) ==
    LET c == ArcPairCons(h, self.pair, x)
        n == ArcNew(c.heap, c.val)
    IN [heap |-> n.heap, ret |-> Fral(WrappingAdd(1, self.size), n.ptr)]
\* Fral::uncons
ArcFralUncons(h, self) ==
    LET size == WrappingSub(self.size, 1)
        u == ArcPairUncons(h, self.pair)
    IN IF u.ret.tag = "None" THEN [heap |-> u.heap, ret |-> None]
       ELSE [heap |-> u.heap,
             ret |-> Some(<<u.ret.val[1], Fral(size, u.ret.val[2])>>)]
\* Fral::len
ArcFralLen(self) == self.size

\* ------------------------------------------------------------------ the caller
\* Indices handed to get: every index in and just past the range, and the
\* largest usize.
GetIndices == (0 .. MaxLen + 1) \cup {MaxWord}

NoIter == [tag |-> "NoIter"]

\* f       the list handle the caller holds
\* it      the iterator the caller holds (NoIter when it holds none); the
\*         caller rebinds f only while it holds no iterator, so that f is the
\*         list the iterator was made from
\* calls   number of next() calls made on it
\* input   the sequence the caller is about to collect into a list
\* last    the last call: its name, receiver, arguments and return value
\* heap    the cells allocated by Arc::new
\* vers    the handles on heap the caller holds, oldest first: every version
\*         of the list it has made, each with the call that made it and what
\*         len and get returned on it when it was made
\* rc      the Rc-based list the caller runs beside f: its handle, its
\*         iterator and the return value of the last call on it
\* other   a second list the caller builds on its own and compares with f
VARIABLES f, it, calls, input, last, heap, vers, rc, other

vars == <<f, it, calls, input, last, heap, vers, rc, other>>

\* What the caller sees of a handle: its length and the element at every
\* index, up to one past the longest list.
Seen(h, self) ==
    [len |-> ArcFralLen(self),
     elems |-> [i \in 0 .. MaxVersions |-> ArcFralGet(h, self, i)]]

Version(h, self, op, from) ==
    [handle |-> self, op |-> op, from |-> from, seen |-> Seen(h, self)]

Init ==
    /\ f = FralNew
    /\ it = NoIter
    /\ calls = 0
    /\ input = <<>>
    /\ last = [op |-> "new", ret |-> FralNew]
    /\ heap = ArcFralNew(<<>>).heap
    /\ vers = <<Version(ArcFralNew(<<>>).heap, ArcFralNew(<<>>).ret, "new", 0)>>
    /\ rc = [f |-> RcFralNew, it |-> NoIter, ret |-> RcFralNew]
    /\ other = FralNew

\* f = Fral::new()
DoNew ==
    /\ it = NoIter
    /\ f' = FralNew
    /\ last' = [op |-> "new", ret |-> FralNew]
    /\ UNCHANGED <<it, calls, input, heap, vers, rc, other>>

\* f = f.cons(x)
DoCons(x) ==
    /\ it = NoIter
    /\ FralLen(f) < MaxLen
    /\ f' = FralCons(f, x)
    /\ last' = [op |-> "cons", recv |-> f, x |-> x, ret |-> FralCons(f, x)]
    /\ UNCHANGED <<it, calls, input, heap, vers, rc, other>>

\* if let Some((head, tail)) = f.uncons() { f = tail }
DoUncons ==
    LET r == FralUncons(f) IN
    /\ it = NoIter
    /\ f' = IF r.tag = "Some" THEN r.val[2] ELSE f
    /\ last' = [op |-> "uncons", recv |-> f, ret |-> r]
    /\ UNCHANGED <<it, calls, input, heap, vers, rc, other>>

\* f.get(index)
DoGet(index) ==
    /\ last' = [op |-> "get", recv |-> f, index |-> index, ret |-> FralGet(f, index)]
    /\ UNCHANGED <<f, it, calls, input, heap, vers, rc, other>>

\* f.is_empty()
DoIsEmpty ==
    /\ last' = [op |-> "is_empty", recv |-> f, ret |-> FralIsEmpty(f)]
    /\ UNCHANGED <<f, it, calls, input, heap, vers, rc, other>>

\* f.len()
DoLen ==
    /\ last' = [op |-> "len", recv |-> f, ret |-> FralLen(f)]
    /\ UNCHANGED <<f, it, calls, input, heap, vers, rc, other>>

\* f.clone()
DoClone ==
    /\ last' = [op |-> "clone", recv |-> f, ret |-> FralClone(f)]
    /\ UNCHANGED <<f, it, calls, input, heap, vers, rc, other>>

\* input.push(x)
DoPush(x) ==
    /\ Len(input) < MaxLen
    /\ input' = Append(input, x)
    /\ UNCHANGED <<f, it, calls, last, heap, vers, rc, other>>

\* f = input.iter().collect()
DoFromIter ==
    /\ it = NoIter
    /\ f' = FromIter(input)
    /\ last' = [op |-> "from_iter", s |-> input, ret |-> FromIter(input)]
    /\ UNCHANGED <<it, calls, input, heap, vers, rc, other>>

\* it = f.iter()
DoIter ==
    /\ it' = FralIter(f)
    /\ calls' = 0
    /\ last' = [op |-> "iter", recv |-> f, ret |-> FralIter(f)]
    /\ UNCHANGED <<f, input, heap, vers, rc, other>>

\* it = f.clone().into_iter()
DoIntoIter ==
    /\ it' = FralIntoIter(FralClone(f))
    /\ calls' = 0
    /\ last' = [op |-> "into_iter", recv |-> f, ret |-> FralIntoIter(FralClone(f))]
    /\ UNCHANGED <<f, input, heap, vers, rc, other>>

\* it.next()
DoNext ==
    /\ it # NoIter
    /\ calls < FralLen(f) + MaxExtraNext
    /\ it' = IterNext(it).self
    /\ calls' = calls + 1
    /\ last' = [op |-> "next", recv |-> it, ret |-> IterNext(it).ret]
    /\ UNCHANGED <<f, input, heap, vers, rc, other>>

\* it.size_hint()
DoSizeHint ==
    /\ it # NoIter
    /\ last' = [op |-> "size_hint", recv |-> it, calls |-> calls,
                ret |-> IterSizeHint(it)]
    /\ UNCHANGED <<f, it, calls, input, heap, vers, rc, other>>

\* it.count(), which consumes the iterator
DoCount ==
    /\ it # NoIter
    /\ it' = NoIter
    /\ calls' = 0
    /\ last' = [op |-> "count", recv |-> it, calls |-> calls, ret |-> IterCount(it)]
    /\ UNCHANGED <<f, input, heap, vers, rc, other>>

\* it.last(), which consumes the iterator, in a build with or without
\* overflow checks
DoLast(checks) ==
    /\ it # NoIter
    /\ it' = NoIter
    /\ calls' = 0
    /\ last' = [op |-> "last", recv |-> it, calls |-> calls, checks |-> checks,
                ret |-> IterLast(it, checks)]
    /\ UNCHANGED <<f, input, heap, vers, rc, other>>

\* drop(it)
DoDropIter ==
    /\ it # NoIter
    /\ it' = NoIter
    /\ calls' = 0
    /\ last' = [op |-> "drop"]
    /\ UNCHANGED <<f, input, heap, vers, rc, other>>

\* let l = vers[k].cons(x); vers.push(l)
DoArcCons(k, x) ==
    LET r == ArcFralCons(heap, vers[k].handle, x) IN
    /\ Len(vers) < MaxVersions
    /\ heap' = r.heap
    /\ vers' = Append(vers, Version(r.heap, r.ret, "cons", k))
    /\ UNCHANGED <<f, it, calls, input, last, rc, other>>

\* if let Some((head, tail)) = vers[k].uncons() { vers.push(tail) }
DoArcUncons(k) ==
    LET r == ArcFralUncons(heap, vers[k].handle) IN
    /\ Len(vers) < MaxVersions
    /\ heap' = r.heap
    /\ vers' = IF r.ret.tag = "Some"
               THEN Append(vers, Version(r.heap, r.ret.val[2], "uncons", k))
               ELSE vers
    /\ UNCHANGED <<f, it, calls, input, last, rc, other>>

\* vers[k].get(index)
DoArcGet(k, index) ==
    /\ Len(vers) < MaxVersions
    /\ last' = [op |-> "get", ret |-> ArcFralGet(heap, vers[k].handle, index)]
    /\ UNCHANGED <<f, it, calls, input, heap, vers, rc, other>>

\* The caller makes the same call on the Arc-based list f and on the
\* Rc-based list rc.f; it reads the lists between iterations.

\* f = f.cons(x), by the caller that builds long lists
DoConsLong(x) ==
    /\ it = NoIter
    /\ FralLen(f) < MaxLongLen
    /\ f' = FralCons(f, x)
    /\ last' = [op |-> "cons", recv |-> f, x |-> x, ret |-> FralCons(f, x)]
    /\ UNCHANGED <<it, calls, input, heap, vers, rc, other>>

\* The caller of two lists builds f and other independently of each other.

\* f = f.cons(x)
DoLeftCons(x) ==
    /\ FralLen(f) < MaxPairLen
    /\ f' = FralCons(f, x)
    /\ last' = [op |-> "cons", ret |-> FralCons(f, x)]
    /\ UNCHANGED <<it, calls, input, heap, vers, rc, other>>

\* other = other.cons(x)
DoRightCons(x) ==
    /\ FralLen(other) < MaxPairLen
    /\ other' = FralCons(other, x)
    /\ last' = [op |-> "cons", ret |-> FralCons(other, x)]
    /\ UNCHANGED <<f, it, calls, input, heap, vers, rc>>

\* if let Some((_, tail)) = f.uncons() { f = tail }
DoLeftUncons ==
    LET r == FralUncons(f) IN
    /\ f' = IF r.tag = "Some" THEN r.val[2] ELSE f
    /\ last' = [op |-> "uncons", ret |-> r]
    /\ UNCHANGED <<it, calls, input, heap, vers, rc, other>>

\* if let Some((_, tail)) = other.uncons() { other = tail }
DoRightUncons ==
    LET r == FralUncons(other) IN
    /\ other' = IF r.tag = "Some" THEN r.val[2] ELSE other
    /\ last' = [op |-> "uncons", ret |-> r]
    /\ UNCHANGED <<f, it, calls, input, heap, vers, rc>>

\* f == other
DoEq ==
    /\ last' = [op |-> "eq", recv |-> f, other |-> other, ret |-> FralEq(f, other)]
    /\ UNCHANGED <<f, it, calls, input, heap, vers, rc, other>>

\* f = Fral::new(); rc.f = rc::Fral::new()
DoBothNew ==
    /\ it = NoIter
    /\ f' = FralNew
    /\ last' = [op |-> "new", ret |-> FralNew]
    /\ rc' = [rc EXCEPT !.f = RcFralNew, !.ret = RcFralNew]
    /\ UNCHANGED <<it, calls, input, heap, vers, other>>

\* f = f.cons(x); rc.f = rc.f.cons(x)
DoBothCons(x) ==
    /\ it = NoIter
    /\ FralLen(f) < MaxLen
    /\ f' = FralCons(f, x)
    /\ last' = [op |-> "cons", recv |-> f, x |-> x, ret |-> FralCons(f, x)]
    /\ rc' = [rc EXCEPT !.f = RcFralCons(rc.f, x), !.ret = RcFralCons(rc.f, x)]
    /\ UNCHANGED <<it, calls, input, heap, vers, other>>

\* if let Some((head, tail)) = f.uncons() { f = tail }, and the same on rc.f
DoBothUncons ==
    LET r == FralUncons(f)
        q == RcFralUncons(rc.f)
    IN /\ it = NoIter
       /\ f' = IF r.tag = "Some" THEN r.val[2] ELSE f
       /\ last' = [op |-> "uncons", recv |-> f, ret |-> r]
       /\ rc' = [rc EXCEPT !.f = IF q.tag = "Some" THEN q.val[2] ELSE rc.f,
                           !.ret = q]
       /\ UNCHANGED <<it, calls, input, heap, vers, other>>

\* f.get(index); rc.f.get(index)
DoBothGet(index) ==
    /\ it = NoIter
    /\ last' = [op |-> "get", recv |-> f, index |-> index, ret |-> FralGet(f, index)]
    /\ rc' = [rc EXCEPT !.ret = RcFralGet(rc.f, index)]
    /\ UNCHANGED <<f, it, calls, input, heap, vers, other>>

\* f.len(); rc.f.len()
DoBothLen ==
    /\ it = NoIter
    /\ last' = [op |-> "len", recv |-> f, ret |-> FralLen(f)]
    /\ rc' = [rc EXCEPT !.ret = RcFralLen(rc.f)]
    /\ UNCHANGED <<f, it, calls, input, heap, vers, other>>

\* f.is_empty(); rc.f.is_empty()
DoBothIsEmpty ==
    /\ it = NoIter
    /\ last' = [op |-> "is_empty", recv |-> f, ret |-> FralIsEmpty(f)]
    /\ rc' = [rc EXCEPT !.ret = RcFralIsEmpty(rc.f)]
    /\ UNCHANGED <<f, it, calls, input, heap, vers, other>>

\* it = f.iter(); rc.it = rc.f.iter()
DoBothIter ==
    /\ it' = FralIter(f)
    /\ calls' = 0
    /\ last' = [op |-> "iter", recv |-> f, ret |-> FralIter(f)]
    /\ rc' = [rc EXCEPT !.it = RcFralIter(rc.f), !.ret = RcFralIter(rc.f)]
    /\ UNCHANGED <<f, input, heap, vers, other>>

\* it.next(); rc.it.next()
DoBothNext ==
    /\ it # NoIter
    /\ calls < FralLen(f) + MaxExtraNext
    /\ it' = IterNext(it).self
    /\ calls' = calls + 1
    /\ last' = [op |-> "next", recv |-> it, ret |-> IterNext(it).ret]
    /\ rc' = [rc EXCEPT !.it = RcIterNext(rc.it).self, !.ret = RcIterNext(rc.it).ret]
    /\ UNCHANGED <<f, input, heap, vers, other>>

\* drop(it); drop(rc.it)
DoBothDropIter ==
    /\ it # NoIter
    /\ it' = NoIter
    /\ calls' = 0
    /\ last' = [op |-> "drop"]
    /\ rc' = [rc EXCEPT !.it = NoIter, !.ret = NoIter]
    /\ UNCHANGED <<f, input, heap, vers, other>>

\* A caller that builds, takes apart and reads one list.
Next ==
    \/ DoNew
    \/ \E x \in Values : DoCons(x)
    \/ DoUncons
    \/ \E index \in GetIndices : DoGet(index)
    \/ DoIsEmpty
    \/ DoLen
    \/ DoClone

Spec == Init /\ [][Next]_vars

\* A caller that builds a list and iterates over it.
NextIter ==
    \/ \E x \in Values : DoCons(x)
    \/ DoUncons
    \/ DoIter
    \/ DoIntoIter
    \/ DoNext
    \/ DoDropIter
    \/ DoSizeHint
    \/ DoCount
    \/ \E checks \in BOOLEAN : DoLast(checks)

SpecIter == Init /\ [][NextIter]_vars

\* A caller that collects every input sequence of up to MaxLen values.
NextFromIter ==
    \/ \E x \in Values : DoPush(x)
    \/ DoFromIter

SpecFromIter == Init /\ [][NextFromIter]_vars

\* A caller that builds, takes apart and reads a long list of one repeated
\* element.
NextLong ==
    \/ \E x \in {NumValues} : DoConsLong(x)
    \/ DoUncons
    \/ \E index \in GetIndices : DoGet(index)

SpecLong == Init /\ [][NextLong]_vars

\* A caller that builds two lists, each by its own conses and unconses, and
\* compares them.
NextPair ==
    \/ \E x \in Values : DoLeftCons(x)
    \/ \E x \in Values : DoRightCons(x)
    \/ DoLeftUncons
    \/ DoRightUncons
    \/ DoEq

SpecPair == Init /\ [][NextPair]_vars

\* A caller that runs the Arc-based and the Rc-based list side by side.
NextRc ==
    \/ DoBothNew
    \/ \E x \in Values : DoBothCons(x)
    \/ DoBothUncons
    \/ \E index \in GetIndices : DoBothGet(index)
    \/ DoBothLen
    \/ DoBothIsEmpty
    \/ DoBothIter
    \/ DoBothNext
    \/ DoBothDropIter

SpecRc == Init /\ [][NextRc]_vars

\* A caller that keeps every version of the list and derives new versions
\* from any of them.
NextArc ==
    \/ \E k \in 1 .. Len(vers) : \E x \in Values : DoArcCons(k, x)
    \/ \E k \in 1 .. Len(vers) : DoArcUncons(k)
    \/ \E k \in 1 .. Len(vers) : \E index \in 0 .. MaxVersions : DoArcGet(k, index)

SpecArc == Init /\ [][NextArc]_vars

\* ---------------------------------------------------------------- vocabulary
\* The cached sizes of the spine's segments, front to back.
RECURSIVE Sizes(_)
Sizes(p) == IF p.tag = "Nil" THEN <<>> ELSE <<p.size>> \o Sizes(p.cdr)

\* The number of elements a tree stores.
RECURSIVE TreeCount(_)
TreeCount(t) ==
    IF t.tag = "Leaf" THEN 1 ELSE 1 + TreeCount(t.t1) + TreeCount(t.t2)

\* The number of elements a spine stores.
RECURSIVE PairCount(_)
PairCount(p) == IF p.tag = "Nil" THEN 0 ELSE TreeCount(p.tree) + PairCount(p.cdr)

\* The number of bits in the binary representation of n (n >= 1).
RECURSIVE Bits(_)
Bits(n) == IF n <= 1 THEN 1 ELSE 1 + Bits(n \div 2)

\* The sizes 2^k - 1, k >= 1, a usize can hold.
SkewSizes == {2 ^ k - 1 : k \in 1 .. WordBits}

\* The sum of the cached sizes of the spine's segments.
RECURSIVE SumSizes(_)
SumSizes(p) == IF p.tag = "Nil" THEN 0 ELSE p.size + SumSizes(p.cdr)

\* A perfect tree: a Leaf, or a Node of two perfect trees that store the
\* same number of elements.
RECURSIVE Perfect(_)
Perfect(t) ==
    \/ t.tag = "Leaf"
    \/ /\ t.tag = "Node"
       /\ TreeCount(t.t1) = TreeCount(t.t2)
       /\ Perfect(t.t1)
       /\ Perfect(t.t2)

\* The shape of a tree: the tree without its elements.
RECURSIVE TreeShape(_)
TreeShape(t) ==
    IF t.tag = "Leaf" THEN <<>> ELSE <<TreeShape(t.t1), TreeShape(t.t2)>>

\* The shape of a spine: the size and the tree shape of each segment.
RECURSIVE PairShape(_)
PairShape(p) ==
    IF p.tag = "Nil" THEN <<>>
    ELSE <<<<p.size, TreeShape(p.tree)>>>> \o PairShape(p.cdr)

\* The segments of a spine, front to back.
RECURSIVE Segments(_)
Segments(p) ==
    IF p.tag = "Nil" THEN <<>>
    ELSE <<[size |-> p.size, tree |-> p.tree]>> \o Segments(p.cdr)

\* The handles the last call returned.
ReturnedHandles ==
    IF last.op \in {"new", "cons", "clone", "from_iter"} THEN {last.ret}
    ELSE IF last.op = "uncons" /\ last.ret.tag = "Some" THEN {last.ret.val[2]}
    ELSE {}

\* The number of elements the next() calls on an iterator yield before the
\* first None.
RECURSIVE Yields(_)
Yields(self) ==
    IF IterNext(self).ret.tag = "Some" THEN 1 + Yields(IterNext(self).self) ELSE 0

\* The larger of two numbers.
Max(a, b) == IF a >= b THEN a ELSE b

\* The indices of a list.
Indices(l) == 0 .. FralLen(l) - 1

\* The tree, the spine and the list an Arc of the heap points to.
RECURSIVE AbsTree(_, _)
AbsTree(h, t) ==
    IF h[t].tag = "Leaf" THEN Leaf(h[t].x)
    ELSE Node(h[t].x, AbsTree(h, h[t].t1), AbsTree(h, h[t].t2))

RECURSIVE AbsPair(_, _)
AbsPair(h, p) ==
    IF h[p].tag = "Nil" THEN Nil
    ELSE Cons(h[p].size, AbsTree(h, h[p].tree), AbsPair(h, h[p].cdr))

AbsFral(h, self) == Fral(self.size, AbsPair(h, self.pair))

\* The operations on the Arc heap compute what the operations on values
\* compute: every version is the cons or the tail of the version it was
\* derived from, and get reads the same elements.
ArcRefinesValue ==
    \A k \in 1 .. Len(vers) :
        LET v == vers[k]
            me == AbsFral(heap, v.handle)
        IN /\ \A i \in 0 .. MaxVersions :
                  ArcFralGet(heap, v.handle, i) = FralGet(me, i)
           /\ v.op = "new" => me = FralNew
           /\ v.op = "cons" =>
                  \E x \in Values : me = FralCons(AbsFral(heap, vers[v.from].handle), x)
           /\ v.op = "uncons" =>
                  LET r == FralUncons(AbsFral(heap, vers[v.from].handle)) IN
                  r.tag = "Some" /\ r.val[2] = me

\* ------------------------------------------------------------------- claims

\* C1. Order preservation of cons: after ret = cons(L, x), get(ret, 0) is x
\* and get(ret, i + 1) is get(L, i) for every index i of L.
OrderPreservation ==
    last.op = "cons" =>
        /\ FralGet(last.ret, 0) = Some(last.x)
        /\ \A i \in Indices(last.recv) :
               FralGet(last.ret, i + 1) = FralGet(last.recv, i)

\* A cons that merged two segments of three elements under the new value.
OrderPreservationWitness ==
    /\ last.op = "cons"
    /\ Sizes(last.recv.pair) = <<3, 3>>
    /\ Sizes(last.ret.pair) = <<7>>
    /\ FralGet(last.recv, 0) # FralGet(last.recv, 3)

\* C2. uncons on a non-empty list L of length n returns Some((h, T)) with
\* h = get(L, 0), get(T, i) = get(L, i + 1) for every i < n - 1, and T
\* holding exactly n - 1 elements.
UnconsHeadAndTail ==
    (last.op = "uncons" /\ FralLen(last.recv) > 0) =>
        /\ last.ret.tag = "Some"
        /\ LET h == last.ret.val[1]
               T == last.ret.val[2]
               n == FralLen(last.recv)
           IN /\ FralGet(last.recv, 0) = Some(h)
              /\ \A i \in 0 .. n - 2 : FralGet(T, i) = FralGet(last.recv, i + 1)
              /\ PairCount(T.pair) = n - 1
              /\ \A i \in 0 .. n - 2 : FralGet(T, i).tag = "Some"
              /\ FralGet(T, n - 1) = None

\* An uncons that split a tree of seven elements into its two subtrees.
UnconsHeadAndTailWitness ==
    /\ last.op = "uncons"
    /\ Sizes(last.recv.pair) = <<7>>
    /\ last.ret.tag = "Some"
    /\ Sizes(last.ret.val[2].pair) = <<3, 3>>
    /\ FralGet(last.recv, 1) # FralGet(last.recv, 4)

\* C3. Length invariant: len(cons(L, x)) = len(L) + 1, and the tail returned
\* by uncons on a non-empty L has length len(L) - 1.
LengthInvariant ==
    /\ last.op = "cons" => FralLen(last.ret) = FralLen(last.recv) + 1
    /\ (last.op = "uncons" /\ FralLen(last.recv) > 0) =>
           /\ last.ret.tag = "Some"
           /\ FralLen(last.ret.val[2]) = FralLen(last.recv) - 1

\* An uncons of a list of five elements, built by cons.
LengthInvariantWitness ==
    /\ last.op = "uncons"
    /\ FralLen(last.recv) = 5
    /\ last.ret.tag = "Some"
    /\ FralLen(f) = 4

\* C5. Out of range is absence, not a fault: get(L, index) with
\* index >= len(L) returns None (no subtraction underflows), and uncons of the
\* empty list returns None.
OutOfRangeIsAbsent ==
    /\ (last.op = "get" /\ last.index >= FralLen(last.recv)) => last.ret = None
    /\ (last.op = "uncons" /\ last.recv = FralNew) => last.ret = None

\* A get of the largest usize on a list of three segments.
OutOfRangeIsAbsentWitness ==
    /\ last.op = "get"
    /\ last.index = MaxWord
    /\ Sizes(last.recv.pair) = <<1, 1, 3>>
    /\ last.ret = None

\* C6. Round trip: after uncons(L) = Some((v, L2)), the list cons(L2, v) has
\* L's length and L's element at every index.
RoundTrip ==
    (last.op = "uncons" /\ last.ret.tag = "Some") =>
        LET back == FralCons(last.ret.val[2], last.ret.val[1]) IN
        /\ FralLen(back) = FralLen(last.recv)
        /\ \A i \in Indices(last.recv) :
               /\ FralGet(back, i) = FralGet(last.recv, i)
               /\ FralGet(back, i).tag = "Some"

\* An uncons that split a tree, which the cons merges again.
RoundTripWitness ==
    /\ last.op = "uncons"
    /\ last.ret.tag = "Some"
    /\ Sizes(last.recv.pair) = <<3, 3>>
    /\ Sizes(last.ret.val[2].pair) = <<1, 1, 3>>
    /\ FralGet(last.recv, 1) # FralGet(last.recv, 2)

\* C7. Skew-binary invariant: the segment sizes of the list are each 2^k - 1
\* (k >= 1), non-decreasing front to back, and no three consecutive segments
\* have the same size.
SkewBinaryInvariant ==
    LET sz == Sizes(f.pair) IN
    /\ \A i \in 1 .. Len(sz) : sz[i] \in SkewSizes
    /\ \A i \in 1 .. Len(sz) - 1 : sz[i] <= sz[i + 1]
    /\ \A i \in 1 .. Len(sz) - 2 : ~(sz[i] = sz[i + 1] /\ sz[i + 1] = sz[i + 2])

\* A list with two equal segments in front of a larger one, left by uncons.
SkewBinaryInvariantWitness ==
    /\ last.op = "uncons"
    /\ Sizes(f.pair) = <<1, 1, 3>>

\* C8. Skew-binary bound: a list of length n has at most Bits(n + 1) + 2
\* spine segments.
SkewBinaryBound ==
    Len(Sizes(f.pair)) <= Bits(FralLen(f) + 1) + 2

\* A list of the most segments: three, at five elements.
SkewBinaryBoundWitness ==
    /\ FralLen(f) = 5
    /\ Len(Sizes(f.pair)) = 3

\* C9. from_iter reverses its input: the list built from s has length
\* Len(s), and its element at index i is the input's element n - 1 - i.
FromIterReverses ==
    last.op = "from_iter" =>
        LET n == Len(last.s) IN
        /\ FralLen(last.ret) = n
        /\ \A i \in 0 .. n - 1 : FralGet(last.ret, i) = Some(last.s[n - i])

\* An input of five or more elements whose first and last differ.
FromIterReversesWitness ==
    /\ last.op = "from_iter"
    /\ Len(last.s) >= 5
    /\ last.s[1] # last.s[Len(last.s)]
    /\ FralGet(f, 0) = Some(last.s[Len(last.s)])

\* C10. Iteration yields the elements front to back and then stops: the k-th
\* next() on an iterator made from the list L of length n returns get(L, k - 1)
\* for k <= n and None for every k > n; L is the list the caller still holds,
\* and the first next() of a fresh iterator returns get(L, 0).
IterationFrontToBack ==
    /\ last.op = "next" =>
           IF calls <= FralLen(f)
           THEN last.ret = FralGet(f, calls - 1) /\ last.ret.tag = "Some"
           ELSE last.ret = None
    /\ last.op \in {"iter", "into_iter"} =>
           /\ calls = 0
           /\ IterNext(it).ret = FralGet(f, 0)
           /\ FralLen(it.fral) = FralLen(f)

\* The sixth and seventh next() on an iterator over five elements.
IterationFrontToBackWitness ==
    /\ last.op = "next"
    /\ FralLen(f) = 5
    /\ calls = 7
    /\ last.ret = None
    /\ FralGet(f, 0) # FralGet(f, 1)

\* C4. Persistence: whatever is later derived from it or from the lists
\* derived from it, by cons, uncons or get, every version of the list the
\* caller holds still has the length and the element at every index that it
\* had when it was made.
Persistence ==
    \A k \in 1 .. Len(vers) : Seen(heap, vers[k].handle) = vers[k].seen

\* A version of two elements that was merged into a tree by a cons, that
\* tree split again by an uncons, and a version that was both consed onto and
\* unconsed.
PersistenceWitness ==
    \E k, a, b \in 1 .. Len(vers) :
        /\ vers[k].handle.size = 2
        /\ vers[k].seen.elems[0] # vers[k].seen.elems[1]
        /\ vers[a].from = k /\ vers[a].op = "cons"
        /\ heap[heap[vers[a].handle.pair].tree].tag = "Node"
        /\ vers[b].from = a /\ vers[b].op = "uncons"
        /\ last.op = "get"

\* C11. is_empty is true iff the list holds no elements: for the list the
\* caller holds, is_empty, len = 0, the spine being Nil, uncons being None
\* and get(0) being None all agree, and all hold of new().
IsEmptyIffNoElements ==
    /\ FralIsEmpty(f) <=> (FralLen(f) = 0)
    /\ FralIsEmpty(f) <=> (f.pair = Nil)
    /\ FralIsEmpty(f) <=> (FralUncons(f) = None)
    /\ FralIsEmpty(f) <=> (FralGet(f, 0) = None)
    /\ last.op = "is_empty" => (last.ret <=> PairCount(last.recv.pair) = 0)
    /\ last.op = "new" => FralIsEmpty(last.ret)

\* is_empty answering TRUE on a list without elements.
IsEmptyIffNoElementsWitness ==
    /\ last.op = "is_empty"
    /\ last.ret = TRUE
    /\ f.pair = Nil

\* C12. The cached length is exact: the length of the list the caller holds
\* and of every handle returned by new, cons, uncons or clone is the sum of
\* the cached sizes of its segments, and is never the wrapped value 0 - 1 that
\* uncons computes on the empty list.
CachedLengthExact ==
    /\ \A h \in ReturnedHandles \cup {f} :
           /\ FralLen(h) = SumSizes(h.pair)
           /\ FralLen(h) # MaxWord
    /\ (last.op = "uncons" /\ FralLen(last.recv) = 0) => last.ret = None

\* An uncons of the empty list, whose wrapped length is dropped.
CachedLengthExactWitness ==
    /\ last.op = "uncons"
    /\ FralLen(last.recv) = 0
    /\ WrappingSub(FralLen(last.recv), 1) = MaxWord
    /\ last.ret = None

\* C13. Perfect trees with exact size caches: every segment of the list
\* caches the number of elements its tree stores, and every tree is perfect
\* (a Leaf of size 1, or a Node of two perfect subtrees of equal count, so
\* that size = 1 + 2 * size(left)).
PerfectTrees ==
    \A i \in 1 .. Len(Segments(f.pair)) :
        LET seg == Segments(f.pair)[i] IN
        /\ seg.size = TreeCount(seg.tree)
        /\ Perfect(seg.tree)
        /\ seg.tree.tag = "Leaf" => seg.size = 1
        /\ seg.tree.tag = "Node" => seg.size = 1 + 2 * TreeCount(seg.tree.t1)

\* A list of a leaf in front of a tree of three elements.
PerfectTreesWitness ==
    /\ last.op = "cons"
    /\ Sizes(f.pair) = <<1, 3>>
    /\ f.pair.cdr.tree.tag = "Node"

\* C15. In-range lookups always succeed: get(L, i) with i < len(L) is Some,
\* for the index of the last get and for every index of the list the caller
\* holds; so the spine walk did not end on Nil, the tree descent did not end
\* on a Leaf with a non-zero index, and no subtraction went below zero.
InRangeLookupsSucceed ==
    /\ (last.op = "get" /\ last.index < FralLen(last.recv)) =>
           last.ret.tag = "Some"
    /\ \A i \in Indices(f) : FralGet(f, i).tag = "Some"

\* A get of the last element of a tree of seven: two descents to the right.
InRangeLookupsSucceedWitness ==
    /\ last.op = "get"
    /\ Sizes(last.recv.pair) = <<7>>
    /\ last.index = 6
    /\ last.ret.tag = "Some"

\* C16. cons is a single merge or push: when the spine has two or more
\* segments and the first two have the same size s, cons(x) returns the
\* segment (2s + 1, Node(x, t1, t2)) in front of the unchanged rest, one
\* segment fewer; in every other case it returns (1, Leaf(x)) in front of the
\* whole unchanged spine, one segment more.
ConsMergesOrPushes ==
    last.op = "cons" =>
        LET p == last.recv.pair
            q == last.ret.pair
            old == Segments(p)
            new == Segments(q)
        IN IF Len(old) >= 2 /\ old[1].size = old[2].size
           THEN /\ new[1] = [size |-> 2 * old[1].size + 1,
                             tree |-> Node(last.x, old[1].tree, old[2].tree)]
                /\ Len(new) = Len(old) - 1
                /\ SubSeq(new, 2, Len(new)) = SubSeq(old, 3, Len(old))
                /\ q.cdr = p.cdr.cdr
           ELSE /\ new[1] = [size |-> 1, tree |-> Leaf(last.x)]
                /\ Len(new) = Len(old) + 1
                /\ SubSeq(new, 2, Len(new)) = old
                /\ q.cdr = p

\* A merge of two leaves in front of a tree that stays as it is.
ConsMergesOrPushesWitness ==
    /\ last.op = "cons"
    /\ Sizes(last.recv.pair) = <<1, 1, 3>>
    /\ Sizes(last.ret.pair) = <<3, 3>>
    /\ last.ret.pair.cdr = last.recv.pair.cdr.cdr

\* C17. uncons splits or drops exactly the first segment: the first tree of
\* a non-empty list is a Leaf iff its cached size is 1; on a Leaf uncons
\* returns its element and the remaining segments; on a Node(x, left, right)
\* of cached size s it returns x and (s/2, left), (s/2, right) in front of
\* the remaining segments, s/2 being the element count of left and of right.
UnconsSplitsOrDrops ==
    /\ f.pair # Nil => (f.pair.tree.tag = "Leaf" <=> f.pair.size = 1)
    /\ (last.op = "uncons" /\ last.recv.pair # Nil) =>
           LET p == last.recv.pair
               t == p.tree
               s == p.size
           IN /\ last.ret.tag = "Some"
              /\ last.ret.val[1] = t.x
              /\ IF t.tag = "Leaf"
                 THEN last.ret.val[2].pair = p.cdr
                 ELSE /\ last.ret.val[2].pair =
                            Cons(s \div 2, t.t1, Cons(s \div 2, t.t2, p.cdr))
                      /\ s \div 2 = TreeCount(t.t1)
                      /\ s \div 2 = TreeCount(t.t2)

\* A split of a tree of three in front of another tree that stays.
UnconsSplitsOrDropsWitness ==
    /\ last.op = "uncons"
    /\ Sizes(last.recv.pair) = <<3, 3>>
    /\ last.ret.tag = "Some"
    /\ last.ret.val[2].pair.cdr.cdr = last.recv.pair.cdr

\* C18. uncons is the structural inverse of cons: uncons(cons(L, x)) is
\* Some((x, L2)) with L2 equal to L under the derived equality (same length,
\* same segment sizes, same trees), after a merge as after a push.
UnconsInvertsCons ==
    last.op = "cons" => FralUncons(last.ret) = Some(<<last.x, last.recv>>)

\* A cons that merged two different leaves, undone by uncons.
UnconsInvertsConsWitness ==
    /\ last.op = "cons"
    /\ Sizes(last.recv.pair) = <<1, 1>>
    /\ last.recv.pair.tree # last.recv.pair.cdr.tree
    /\ last.ret.pair.tree.tag = "Node"

\* C19. Iter::last never faults: on an iterator with n elements left, last()
\* returns the element at index n - 1 when n > 0 and None when n = 0, and the
\* subtraction len - 1 neither goes below zero nor panics.
IterLastNeverFaults ==
    last.op = "last" =>
        LET n == FralLen(last.recv.fral) IN
        /\ n > 0 => /\ last.ret = FralGet(last.recv.fral, n - 1)
                    /\ last.ret.tag = "Some"
        /\ n = 0 => last.ret = None
        /\ CheckedSub(n, 1) # Underflow

\* C20. The iterator's reported size is exact: after k next() calls on an
\* iterator over a list of n elements, size_hint() is (m, Some(m)) and
\* count() is m, where m = max(n - k, 0) is the number of elements the
\* remaining next() calls yield.
IterSizeExact ==
    /\ it # NoIter =>
           LET m == Max(FralLen(f) - calls, 0) IN
           /\ IterSizeHint(it) = <<m, Some(m)>>
           /\ IterCount(it) = m
           /\ Yields(it) = m
    /\ last.op = "size_hint" =>
           LET m == Max(FralLen(f) - last.calls, 0) IN
           last.ret = <<m, Some(m)>> /\ Yields(last.recv) = m
    /\ last.op = "count" =>
           LET m == Max(FralLen(f) - last.calls, 0) IN
           last.ret = m /\ Yields(last.recv) = m

\* A count() after three of five elements were taken.
IterSizeExactWitness ==
    /\ last.op = "count"
    /\ FralLen(f) = 5
    /\ last.calls = 3
    /\ last.ret = 2

\* C14. The Rc-based list is a drop-in replacement for the Arc-based one:
\* after any sequence of new, cons, uncons, get, len, is_empty, iter and next
\* made on both, the last call returned the same result on both (same
\* presence, same element, same length) and the two lists, and the two
\* iterators, have the same spine: same segment sizes, same trees.
RcIsDropInReplacement ==
    /\ last.op # "drop" => rc.ret = last.ret
    /\ rc.f = f
    /\ rc.it = it
    /\ Sizes(rc.f.pair) = Sizes(f.pair)

\* A next() on both iterators, over lists that a cons merged into one tree.
RcIsDropInReplacementWitness ==
    /\ last.op = "next"
    /\ calls = 2
    /\ Sizes(rc.f.pair) = <<3>>
    /\ rc.ret.tag = "Some"
    /\ Sizes(rc.it.fral.pair) = <<1>>

\* C21. Strengthened skew-binary invariant (canonical form): in every list
\* built from new() by cons and uncons only the first two segments may have
\* the same size; from the second segment on the sizes strictly increase.
\* Lists of up to MaxLongLen elements have up to four segments.
CanonicalForm ==
    LET sz == Sizes(f.pair) IN
    /\ \A i \in 2 .. Len(sz) - 1 : sz[i] < sz[i + 1]
    /\ Len(sz) >= 2 => sz[1] <= sz[2]

\* A cons that pushed a second leaf in front of larger trees: the first two
\* segments are equal and the later ones grow.
CanonicalFormWitness ==
    /\ last.op = "cons"
    /\ Sizes(last.recv.pair) = <<1, 3, 15>>
    /\ Sizes(f.pair) = <<1, 1, 3, 15>>

\* C22. The shape is a function of the length alone, so the derived == is
\* element-wise equality: two lists, each built from new() by its own conses
\* and unconses, that have the same length have the same segment sizes and
\* the same tree shapes; and f == other holds exactly when the lengths are
\* equal and get returns equal elements at every index.
ShapeIsFunctionOfLength ==
    /\ FralLen(f) = FralLen(other) =>
           /\ Sizes(f.pair) = Sizes(other.pair)
           /\ PairShape(f.pair) = PairShape(other.pair)
    /\ last.op = "eq" =>
           (last.ret <=>
               /\ FralLen(last.recv) = FralLen(last.other)
               /\ \A i \in Indices(last.recv) :
                      FralGet(last.recv, i) = FralGet(last.other, i))

\* Two lists of four elements, a leaf before a tree of three, that differ in
\* one element of the tree and compare unequal.
ShapeIsFunctionOfLengthWitness ==
    /\ last.op = "eq"
    /\ last.ret = FALSE
    /\ Sizes(f.pair) = <<1, 3>>
    /\ Sizes(other.pair) = <<1, 3>>
    /\ \A i \in Indices(f) \ {2} : FralGet(f, i) = FralGet(other, i)
    /\ FralGet(f, 2) # FralGet(other, 2)
====
